---- MODULE Spec2Model ----
(***************************************************************************)
(* A model of the Power BI agent: the token acquisition with bounded       *)
(* retry, the four tool operations of app/tools_powerbi.py, the result     *)
(* preview _first_table_to_csv and the agent graph of app/agent.py.        *)
(*                                                                         *)
(* Texts are sequences of one-character strings, so that trimming, case    *)
(* folding, prefix tests and CSV writing are computed character by         *)
(* character.  The remote services (identity provider, reporting API,      *)
(* language models, trace sink) are inputs of the actions.                 *)
(***************************************************************************)
EXTENDS Integers, Sequences, FiniteSets, TLC

VARIABLES
    WORKSPACE_ID,   \* default workspace reference, read once from the environment
    DATASET_ID,     \* default dataset reference, read once from the environment
    sinkFaulty,     \* whether the trace sink is one whose calls may raise
    node,           \* position of the graph run: idle, agent, tools, __end__, raised
    messages,       \* MessagesState["messages"] of the run in progress
    pending,        \* tool calls of the latest model response not yet executed
    steps,          \* number of model steps taken by the run in progress
    returned,       \* res["messages"][-1] of the latest completed invoke
    last            \* the latest call of a function of tools_powerbi.py and its effects

vars == <<WORKSPACE_ID, DATASET_ID, sinkFaulty, node, messages, pending, steps, returned, last>>

graphVars == <<node, messages, pending, steps, returned>>
configVars == <<WORKSPACE_ID, DATASET_ID, sinkFaulty>>

\* Python's None, for the identifier strings
NONE == "<None>"

\* Truthiness of an optional identifier string (None and "" are falsy)
Falsy(x) == x \in {NONE, ""}

\* Python's `a or b` on optional strings
Or(a, b) == IF Falsy(a) THEN b ELSE a

Min(a, b) == IF a <= b THEN a ELSE b

----------------------------------------------------------------------------
(* Texts *)

IsSpace(c) == c \in {" ", "\t", "\n", "\r"}

RECURSIVE LStrip(_)
LStrip(s) == IF s # <<>> /\ IsSpace(Head(s)) THEN LStrip(Tail(s)) ELSE s

RECURSIVE RStrip(_)
RStrip(s) == IF s # <<>> /\ IsSpace(s[Len(s)]) THEN RStrip(SubSeq(s, 1, Len(s) - 1)) ELSE s

\* str.strip()
Strip(s) == RStrip(LStrip(s))

UpperChar(c) ==
    CASE c = "e" -> "E" [] c = "v" -> "V" [] c = "a" -> "A" [] c = "l" -> "L"
      [] c = "u" -> "U" [] c = "t" -> "T" [] c = "d" -> "D" [] c = "s" -> "S"
      [] c = "c" -> "C" [] OTHER -> c

\* str.upper()
Upper(s) == [i \in 1..Len(s) |-> UpperChar(s[i])]

\* str.startswith(p)
StartsWith(s, p) == Len(s) >= Len(p) /\ SubSeq(s, 1, Len(p)) = p

EVALUATE == <<"E", "V", "A", "L", "U", "A", "T", "E">>

----------------------------------------------------------------------------
(* HTTP *)

\* Response.raise_for_status(): raises HTTPError for 4xx and 5xx only
RaisesForStatus(status) == status >= 400 /\ status < 600

\* status 0 stands for a request that raised (no connection, timeout)
NoResponse(status) == status = 0

----------------------------------------------------------------------------
(* Token acquisition *)

\* stop_after_attempt(3)
MaxAttemptsOneMore == 3 + 1
MaxAttempts == 3

\* length of the modelled stream of token-endpoint responses
TokenStreamLen == 4

TokenPost == [method |-> "POST", endpoint |-> "token", path |-> <<>>, query |-> <<>>]

\* the token the i-th response of the stream would carry
Tok(i) == <<"tok", i>>

\* what the i-th request to the token endpoint meets
TokenResponseKinds == {"token", "http_503", "no_access_token", "no_response"}

TokenResponse(kind, i) ==
    CASE kind = "token"           -> [status |-> 200, hasToken |-> TRUE,  token |-> Tok(i)]
      [] kind = "http_503"        -> [status |-> 503, hasToken |-> FALSE, token |-> Tok(0)]
      [] kind = "no_access_token" -> [status |-> 200, hasToken |-> FALSE, token |-> Tok(0)]
      [] OTHER                    -> [status |-> 0,   hasToken |-> FALSE, token |-> Tok(0)]

TokenStreamsOver(kinds) ==
    { [i \in 1..TokenStreamLen |-> TokenResponse(ks[i], i)] : ks \in [1..TokenStreamLen -> kinds] }

TokenStreams == TokenStreamsOver(TokenResponseKinds)

\* one execution of the body of _get_token returns (rather than raises)
AttemptReturns(resp) ==
    /\ ~NoResponse(resp.status)
    /\ ~RaisesForStatus(resp.status)
    /\ resp.hasToken

\* the retry decorator: call again after an exception until the attempt
\* number reaches the stop, then raise RetryError
RECURSIVE RetryingFrom(_, _)
RetryingFrom(stream, n) ==
    IF AttemptReturns(stream[n])
    THEN [ok |-> TRUE, attempts |-> n, token |-> stream[n].token]
    ELSE IF n >= MaxAttempts \/ n >= Len(stream)
         THEN [ok |-> FALSE, attempts |-> n, token |-> Tok(0)]
         ELSE RetryingFrom(stream, n + 1)

\* _get_token()
GetToken(stream) == RetryingFrom(stream, 1)

TokenHttp(tk) == [i \in 1..tk.attempts |-> TokenPost]

----------------------------------------------------------------------------
(* Query results and their preview *)

\* the default of max_rows, and the value execute_dax_query passes
DefaultMaxRows == 50

\* json.dumps(x, indent=2): the text is determined by, and determines, x
JsonDumps(x) == <<"json.dumps", x>>

CRLF == <<"\r", "\n">>

\* csv.writer with the default dialect quotes a field that holds the
\* delimiter, the quote character or a character of the line terminator
NeedsQuote(f) == \E i \in 1..Len(f) : f[i] \in {",", "\"", "\r", "\n"}

RECURSIVE DoubleQuotes(_)
DoubleQuotes(f) ==
    IF f = <<>> THEN <<>>
    ELSE (IF Head(f) = "\"" THEN <<"\"", "\"">> ELSE <<Head(f)>>) \o DoubleQuotes(Tail(f))

WriteField(f) == IF NeedsQuote(f) THEN <<"\"">> \o DoubleQuotes(f) \o <<"\"">> ELSE f

RECURSIVE JoinFields(_)
JoinFields(fields) ==
    IF fields = <<>> THEN <<>>
    ELSE IF Len(fields) = 1 THEN WriteField(fields[1])
    ELSE WriteField(Head(fields)) \o <<",">> \o JoinFields(Tail(fields))

\* writer.writerow(fields): a row of one empty field is written as ""
WriteRow(fields) ==
    (IF Len(fields) = 1 /\ fields[1] = <<>> THEN <<"\"", "\"">> ELSE JoinFields(fields)) \o CRLF

RECURSIVE WriteRows(_)
WriteRows(rws) == IF rws = <<>> THEN <<>> ELSE WriteRow(Head(rws)) \o WriteRows(Tail(rws))

\* dict.get(key, default) on a row given as a sequence of [k, v] items
RECURSIVE ItemsGet(_, _, _)
ItemsGet(items, key, default) ==
    IF items = <<>> THEN default
    ELSE IF Head(items).k = key THEN Head(items).v
    ELSE ItemsGet(Tail(items), key, default)

\* [c.get("name", "") for c in columns]
ColNames(columns) ==
    [i \in 1..Len(columns.items) |->
        IF columns.items[i].hasName THEN columns.items[i].name ELSE <<>>]

\* list(rows[0].keys())
RowKeys(row) == [i \in 1..Len(row.items) |-> row.items[i].k]

\* rows[:max_rows]
FirstRows(rws, max_rows) == SubSeq(rws, 1, Min(Len(rws), max_rows))

\* [row.get(cn, "") for cn in col_names]
Project(row, col_names) == [j \in 1..Len(col_names) |-> ItemsGet(row.items, col_names[j], <<>>)]

\* row.get is evaluated, and raises AttributeError, on a row that is a list
\* as soon as there is a column name to look up
ProjectRaises(rws, col_names) ==
    col_names # <<>> /\ \E i \in 1..Len(rws) : rws[i].kind = "list"

JsonOut(branch, x) ==
    [kind |-> "json", branch |-> branch, doc |-> JsonDumps(x), written |-> <<>>, text |-> <<>>]

\* the header row and the data rows handed to the writer, then
\* output.getvalue().strip()
CsvOut(branch, col_names, rws) ==
    IF ProjectRaises(rws, col_names)
    THEN [kind |-> "raise", branch |-> branch, doc |-> JsonDumps(<<>>), written |-> <<>>,
          text |-> <<>>]
    ELSE LET written == <<col_names>> \o [i \in 1..Len(rws) |-> Project(rws[i], col_names)]
         IN [kind |-> "csv", branch |-> branch, doc |-> JsonDumps(<<>>), written |-> written,
             text |-> Strip(WriteRows(written))]

\* table.get("rows", [])
TableRows(table) == IF table.hasRows THEN table.rows ELSE <<>>

RenderTable(table, max_rows) ==
    LET rws == TableRows(table) IN
    IF table.columns.isList
    THEN CsvOut("columns", ColNames(table.columns), FirstRows(rws, max_rows))
    ELSE IF rws # <<>> /\ rws[1].kind = "dict"
    THEN CsvOut("keys", RowKeys(rws[1]), FirstRows(rws, max_rows))
    ELSE JsonOut("raw_table", table)

\* first.get("errors") is truthy
ErrorsTruthy(first) == first.hasErrors /\ first.errors # <<>>

\* first.get("tables", [])
StatementTables(first) == IF first.hasTables THEN first.tables ELSE <<>>

RenderStatementTablesFirst(first, max_rows) ==
    IF StatementTables(first) = <<>> THEN JsonOut("no_tables", first)
    ELSE IF ErrorsTruthy(first) THEN JsonOut("errors", first.errors)
    ELSE RenderTable(StatementTables(first)[1], max_rows)

RenderStatement(first, max_rows) ==
    IF ErrorsTruthy(first) THEN JsonOut("errors", first.errors)
    ELSE IF StatementTables(first) = <<>> THEN JsonOut("no_tables", first)
    ELSE RenderTable(StatementTables(first)[1], max_rows)

\* result.get("results", [])
ResultStatements(result) == IF result.hasResults THEN result.results ELSE <<>>

\* _first_table_to_csv(result, max_rows)
FirstTableToCsv(result, max_rows) ==
    IF ResultStatements(result) = <<>> THEN JsonOut("no_results", result)
    ELSE RenderStatement(ResultStatements(result)[1], max_rows)

(* Sample query results *)

\* largest number of rows of a sample table
MaxInputRows == 3

\* largest max_rows tried besides the default
MaxRowsArg == 2

CellA == <<"a">>
CellB == <<"b">>
CellX == <<"x">>
CellSpace == <<" ">>
CellComma == <<"x", ",", "y">>

DictRow(items) == [kind |-> "dict", items |-> items]
ListRow(vals) == [kind |-> "list", items |-> [i \in 1..Len(vals) |-> [k |-> <<>>, v |-> vals[i]]]]

SampleRows ==
    { DictRow(<<[k |-> CellA, v |-> CellX]>>),
      DictRow(<<[k |-> CellA, v |-> CellSpace]>>),
      DictRow(<<[k |-> CellA, v |-> CellX], [k |-> CellB, v |-> CellComma]>>),
      DictRow(<<[k |-> CellB, v |-> CellX]>>),
      DictRow(<<>>),
      ListRow(<<CellX>>) }

Named(n) == [hasName |-> TRUE, name |-> n]

NoColumns == [isList |-> FALSE, items |-> <<>>]
Columns(items) == [isList |-> TRUE, items |-> items]

SampleColumns ==
    { NoColumns,
      Columns(<<>>),
      Columns(<<Named(CellA)>>),
      Columns(<<Named(CellA), Named(CellB)>>),
      Columns(<<Named(CellSpace)>>),
      Columns(<<[hasName |-> FALSE, name |-> <<>>]>>) }

RowLists == UNION { [1..n -> SampleRows] : n \in 0..MaxInputRows }

SampleTables ==
    { [columns |-> c, hasRows |-> TRUE, rows |-> r] : c \in SampleColumns, r \in RowLists }
    \cup { [columns |-> c, hasRows |-> FALSE, rows |-> <<>>] : c \in SampleColumns }

Statement(errors, tables) ==
    [hasErrors |-> TRUE, errors |-> errors, hasTables |-> TRUE, tables |-> tables]

TablesOnly(tables) ==
    [hasErrors |-> FALSE, errors |-> <<>>, hasTables |-> TRUE, tables |-> tables]

Result(statements) == [hasResults |-> TRUE, results |-> statements]

\* a few tables for the results whose interest is their shape
LedgerTable ==
    [columns |-> NoColumns, hasRows |-> TRUE,
     rows |-> <<DictRow(<<[k |-> CellA, v |-> CellX]>>), DictRow(<<[k |-> CellA, v |-> CellX]>>)>>]

DescribedTable ==
    [columns |-> Columns(<<Named(CellA)>>), hasRows |-> TRUE,
     rows |-> <<DictRow(<<[k |-> CellA, v |-> CellX]>>)>>]

PositionalTable ==
    [columns |-> NoColumns, hasRows |-> TRUE, rows |-> <<ListRow(<<CellX>>)>>]

ShapeTableLists ==
    { <<>>, <<LedgerTable>>, <<DescribedTable, LedgerTable>>, <<PositionalTable>> }

ShapeStatements ==
    { [hasErrors |-> he, errors |-> e, hasTables |-> ht, tables |-> t] :
        he \in BOOLEAN, e \in {<<>>, <<"QueryError">>}, ht \in BOOLEAN, t \in ShapeTableLists }

ShapeResults ==
    { [hasResults |-> FALSE, results |-> <<>>], Result(<<>>) }
    \cup { Result(<<s>>) : s \in ShapeStatements }
    \cup { Result(<<s, TablesOnly(<<LedgerTable>>)>>) : s \in ShapeStatements }

PreviewInputs == ShapeResults \cup { Result(<<TablesOnly(<<t>>)>>) : t \in SampleTables }

MaxRowsArgs == 0..MaxRowsArg \cup {DefaultMaxRows}

----------------------------------------------------------------------------
(* The tool operations *)

\* r.text[:4000]
SnippetCharsPowerOfTwo == 2 ^ 12
SnippetChars == 4000

NoSnippet == [taken |-> FALSE, chars |-> 0, width |-> 0]

\* an operation that ends by raising `exc`
Raise(exc, http, llm, trace, snippet) ==
    [raised |-> TRUE, exc |-> exc, value |-> <<>>, http |-> http, llm |-> llm,
     trace |-> trace, snippet |-> snippet]

\* an operation that returns `value`
Return(value, http, llm, trace) ==
    [raised |-> FALSE, exc |-> "", value |-> value, http |-> http, llm |-> llm,
     trace |-> trace, snippet |-> NoSnippet]

\* Each operation talks to the trace sink at numbered points: entering the
\* span is point 1 and every span.update that is reached is the next point.
\* failAt = k says that the k-th point raises; failAt = 0, that none does.
\* Nothing in the operations catches what the sink raises.

\* the body shared by list_reports and list_report_pages: the workspace
\* check, the token, the GET, its status and the projection of "value"
ListRun(endpoint, path, ws, stream, api, failAt) ==
    IF failAt = 1 THEN Raise("SinkError", <<>>, 0, <<>>, NoSnippet)
    ELSE IF Falsy(ws)
    THEN IF failAt = 2 THEN Raise("SinkError", <<>>, 0, <<"start">>, NoSnippet)
         ELSE Raise("ValueError: workspace_id", <<>>, 0, <<"start", "metadata.error">>,
                    NoSnippet)
    ELSE LET tk == GetToken(stream) IN
         IF ~tk.ok THEN Raise("RetryError", TokenHttp(tk), 0, <<"start">>, NoSnippet)
         ELSE LET http == Append(TokenHttp(tk),
                                 [method |-> "GET", endpoint |-> endpoint, path |-> path,
                                  query |-> <<>>])
              IN IF NoResponse(api.status)
                 THEN Raise("RequestException", http, 0, <<"start">>, NoSnippet)
                 ELSE IF failAt = 2 THEN Raise("SinkError", http, 0, <<"start">>, NoSnippet)
                 ELSE IF RaisesForStatus(api.status)
                 THEN Raise("HTTPError", http, 0, <<"start", "metadata.http">>, NoSnippet)
                 ELSE IF ~api.isJson
                 THEN Raise("JSONDecodeError", http, 0, <<"start", "metadata.http">>, NoSnippet)
                 ELSE IF failAt = 3
                 THEN Raise("SinkError", http, 0, <<"start", "metadata.http">>, NoSnippet)
                 ELSE Return(api.items, http, 0, <<"start", "metadata.http", "output">>)

\* list_reports(workspace_id)
ListReportsRun(workspace_id, stream, api, failAt) ==
    LET ws == Or(workspace_id, WORKSPACE_ID)
    IN ListRun("reports", <<ws>>, ws, stream, api, failAt)

\* list_report_pages(report_id, workspace_id)
ListReportPagesRun(report_id, workspace_id, stream, api, failAt) ==
    LET ws == Or(workspace_id, WORKSPACE_ID)
    IN ListRun("pages", <<ws, report_id>>, ws, stream, api, failAt)

GenerateDaxRunCaseSensitive(user_question, llm, failAt) ==
    IF llm.raises THEN Raise("LLMError", <<>>, 1, <<"start", "input">>, NoSnippet)
    ELSE LET dax == Strip(IF llm.isNone THEN <<>> ELSE llm.text) IN
         IF ~StartsWith(dax, EVALUATE)
         THEN Raise("ValueError: not EVALUATE", <<>>, 1, <<"start", "input">>, NoSnippet)
         ELSE Return(dax, <<>>, 1, <<"start", "input", "output">>)

\* generate_dax_from_nl(user_question); llm is what _dax_llm.invoke meets
GenerateDaxRun(user_question, llm, failAt) ==
    IF failAt = 1 THEN Raise("SinkError", <<>>, 0, <<>>, NoSnippet)
    ELSE IF failAt = 2 THEN Raise("SinkError", <<>>, 0, <<"start">>, NoSnippet)
    ELSE IF llm.raises THEN Raise("LLMError", <<>>, 1, <<"start", "input">>, NoSnippet)
    ELSE LET dax == Strip(IF llm.isNone THEN <<>> ELSE llm.text) IN
         IF ~StartsWith(Upper(dax), EVALUATE)
         THEN Raise("ValueError: not EVALUATE", <<>>, 1, <<"start", "input">>, NoSnippet)
         ELSE IF failAt = 3 THEN Raise("SinkError", <<>>, 1, <<"start", "input">>, NoSnippet)
         ELSE Return(dax, <<>>, 1, <<"start", "input", "output">>)

\* execute_dax_query from the token on (lines 178-196)
ExecuteDaxSend(dax, ws, ds, stream, api, failAt) ==
    LET tk == GetToken(stream) IN
    IF ~tk.ok THEN Raise("RetryError", TokenHttp(tk), 0, <<"start">>, NoSnippet)
    ELSE IF failAt = 2 THEN Raise("SinkError", TokenHttp(tk), 0, <<"start">>, NoSnippet)
    ELSE LET http == Append(TokenHttp(tk),
                            [method |-> "POST", endpoint |-> "executeQueries",
                             path |-> <<ws, ds>>, query |-> dax])
         IN IF NoResponse(api.status)
            THEN Raise("RequestException", http, 0, <<"start", "input">>, NoSnippet)
            ELSE IF failAt = 3 THEN Raise("SinkError", http, 0, <<"start", "input">>, NoSnippet)
            ELSE IF RaisesForStatus(api.status)
            THEN IF failAt = 4
                 THEN Raise("SinkError", http, 0, <<"start", "input", "metadata.http">>, NoSnippet)
                 ELSE Raise("HTTPError", http, 0,
                            <<"start", "input", "metadata.http", "metadata.error">>,
                            [taken |-> TRUE, chars |-> Min(api.chars, SnippetChars),
                             width |-> api.width])
            ELSE IF ~api.isJson
            THEN Raise("JSONDecodeError", http, 0, <<"start", "input", "metadata.http">>,
                       NoSnippet)
            ELSE LET csv_preview == FirstTableToCsv(api.result, DefaultMaxRows) IN
                 IF csv_preview.kind = "raise"
                 THEN Raise("AttributeError", http, 0, <<"start", "input", "metadata.http">>,
                            NoSnippet)
                 ELSE IF failAt = 4
                 THEN Raise("SinkError", http, 0, <<"start", "input", "metadata.http">>,
                            NoSnippet)
                 ELSE Return([raw |-> api.result, csv_preview |-> csv_preview], http, 0,
                             <<"start", "input", "metadata.http", "output">>)

ExecuteDaxRunNoDatasetCheck(dax, workspace_id, dataset_id, stream, api, failAt) ==
    LET ws == Or(workspace_id, WORKSPACE_ID)
        ds == Or(dataset_id, DATASET_ID)
    IN  IF Falsy(ws)
        THEN Raise("ValueError: workspace_id", <<>>, 0, <<"start", "metadata.error">>, NoSnippet)
        ELSE ExecuteDaxSend(dax, ws, ds, stream, api, failAt)

\* execute_dax_query(dax, workspace_id, dataset_id)
ExecuteDaxRun(dax, workspace_id, dataset_id, stream, api, failAt) ==
    LET ws == Or(workspace_id, WORKSPACE_ID)
        ds == Or(dataset_id, DATASET_ID)
    IN  IF failAt = 1 THEN Raise("SinkError", <<>>, 0, <<>>, NoSnippet)
        ELSE IF Falsy(ws)
        THEN IF failAt = 2 THEN Raise("SinkError", <<>>, 0, <<"start">>, NoSnippet)
             ELSE Raise("ValueError: workspace_id", <<>>, 0, <<"start", "metadata.error">>,
                        NoSnippet)
        ELSE IF Falsy(ds)
        THEN IF failAt = 2 THEN Raise("SinkError", <<>>, 0, <<"start">>, NoSnippet)
             ELSE Raise("ValueError: dataset_id", <<>>, 0, <<"start", "metadata.error">>,
                        NoSnippet)
        ELSE ExecuteDaxSend(dax, ws, ds, stream, api, failAt)

----------------------------------------------------------------------------
(* Calls and their effects *)

NoMsg == [type |-> "none", tool_calls |-> <<>>]

NoCall == [op |-> "none", done |-> FALSE]

GraphIdle ==
    /\ node = "idle"
    /\ messages = <<>>
    /\ pending = <<>>
    /\ steps = 0
    /\ returned = NoMsg

BaseInit ==
    /\ WORKSPACE_ID = NONE
    /\ DATASET_ID = NONE
    /\ sinkFaulty = FALSE
    /\ GraphIdle

\* a direct call of _get_token, on the responses the call will meet
GetTokenCall ==
    /\ last.op = "_get_token"
    /\ ~last.done
    /\ last' = [op |-> "_get_token", done |-> TRUE, stream |-> last.stream,
                result |-> GetToken(last.stream), http |-> TokenHttp(GetToken(last.stream))]
    /\ UNCHANGED <<graphVars, configVars>>

InitToken ==
    /\ BaseInit
    /\ \E stream \in TokenStreams : last = [op |-> "_get_token", done |-> FALSE, stream |-> stream]

NextToken == GetTokenCall

SpecToken == InitToken /\ [][NextToken]_vars

\* a direct call of _first_table_to_csv, on the arguments it is given
FirstTableToCsvCall ==
    /\ last.op = "_first_table_to_csv"
    /\ ~last.done
    /\ last' = [op |-> "_first_table_to_csv", done |-> TRUE, result |-> last.result,
                max_rows |-> last.max_rows, out |-> FirstTableToCsv(last.result, last.max_rows)]
    /\ UNCHANGED <<graphVars, configVars>>

InitPreview ==
    /\ BaseInit
    /\ \E result \in PreviewInputs, max_rows \in MaxRowsArgs :
         last = [op |-> "_first_table_to_csv", done |-> FALSE, result |-> result,
                 max_rows |-> max_rows]

NextPreview == FirstTableToCsvCall

SpecPreview == InitPreview /\ [][NextPreview]_vars

----------------------------------------------------------------------------
(* Inputs of the operations *)

WsArgs == {NONE, "", "ws1"}
DsArgs == {NONE, "ds1"}
ReportIds == {"r1"}
Questions == {"q1"}

\* what the reporting API answers to a list request
ListResponses ==
    { [status |-> 200, isJson |-> TRUE,  items |-> 2],
      [status |-> 200, isJson |-> TRUE,  items |-> 0],
      [status |-> 200, isJson |-> FALSE, items |-> 0],
      [status |-> 304, isJson |-> FALSE, items |-> 0],
      [status |-> 404, isJson |-> TRUE,  items |-> 0],
      [status |-> 500, isJson |-> FALSE, items |-> 0],
      [status |-> 0,   isJson |-> FALSE, items |-> 0] }

\* query results the executeQueries endpoint answers with
ExecResults ==
    { Result(<<TablesOnly(<<LedgerTable>>)>>),
      Result(<<Statement(<<"QueryError">>, <<>>)>>),
      Result(<<>>),
      Result(<<TablesOnly(<<[columns |-> Columns(<<Named(CellA)>>), hasRows |-> TRUE,
                            rows |-> <<ListRow(<<CellX>>)>>]>>)>>) }

NoResult == [hasResults |-> FALSE, results |-> <<>>]

\* a response body of `chars` characters of `width` bytes each
ErrorBodies ==
    { [chars |-> 120, width |-> 1], [chars |-> 4000, width |-> 1],
      [chars |-> 4096, width |-> 1], [chars |-> 3000, width |-> 2] }

\* what the reporting API answers to the POST of a query
ExecResponses ==
    { [status |-> 200, isJson |-> TRUE, chars |-> 120, width |-> 1, result |-> r] :
        r \in ExecResults }
    \cup { [status |-> 400, isJson |-> FALSE, chars |-> b.chars, width |-> b.width,
            result |-> NoResult] : b \in ErrorBodies }
    \cup { [status |-> 503, isJson |-> FALSE, chars |-> 0, width |-> 1, result |-> NoResult] }
    \cup { [status |-> 200, isJson |-> FALSE, chars |-> 120, width |-> 1, result |-> NoResult],
           [status |-> 304, isJson |-> TRUE,  chars |-> 120, width |-> 1,
            result |-> Result(<<TablesOnly(<<LedgerTable>>)>>)],
           [status |-> 304, isJson |-> FALSE, chars |-> 0, width |-> 1, result |-> NoResult],
           [status |-> 0,   isJson |-> FALSE, chars |-> 0, width |-> 1, result |-> NoResult] }

TextLedger == <<" ", "L">>
TextEvaluate == EVALUATE \o TextLedger
TextLowerEvaluate == <<"e", "v", "a", "l", "u", "a", "t", "e">> \o TextLedger
TextSelect == <<"S", "E", "L", "E", "C", "T">> \o TextLedger
TextTruncated == <<"E", "V", "A", "L", "U", "A", "T">>

\* query texts a caller passes to execute_dax_query
DaxTexts == {TextEvaluate, TextLowerEvaluate, TextSelect, <<>>, <<" ">> \o TextEvaluate}

\* what _dax_llm.invoke meets: an exception, or a response and its content
DaxLlmOutcomes ==
    { [raises |-> TRUE, isNone |-> FALSE, text |-> <<>>],
      [raises |-> FALSE, isNone |-> TRUE, text |-> <<>>] }
    \cup { [raises |-> FALSE, isNone |-> FALSE, text |-> t] :
            t \in { TextEvaluate, TextSelect, TextTruncated, <<>>, <<" ", "\n">>,
                    <<"\n", " ">> \o TextLowerEvaluate \o <<" ", "\n">>,
                    <<"E", "v", "a", "L", "u", "A", "t", "e">>,
                    <<"\t">> \o TextEvaluate \o <<"\r", "\n">> } }

\* the token endpoint as the operations of a run meet it: it rejects the
\* first k requests and grants the following ones
OpTokenStreams ==
    { [i \in 1..TokenStreamLen |-> TokenResponse(IF i <= k THEN "http_503" ELSE "token", i)] :
        k \in 0..TokenStreamLen }

\* the points of an operation at which the sink may raise
TracePoints == {1, 2, 3, 4}
FailPoints == IF sinkFaulty THEN {0} \cup TracePoints ELSE {0}

----------------------------------------------------------------------------
(* The agent graph *)

\* most model steps of one run that are explored
MaxSteps == 2

ToolNames ==
    {"list_powerbi_reports", "get_powerbi_report_pages", "generate_dax_from_nl",
     "execute_dax_query"}

\* the tool calls a model response may carry
ToolCallLists ==
    {<<>>} \cup { <<t>> : t \in ToolNames }
    \cup { <<"generate_dax_from_nl", "execute_dax_query">> }

HumanMessage == [type |-> "human", tool_calls |-> <<>>]
AIMessage(tool_calls) == [type |-> "ai", tool_calls |-> tool_calls]
ToolMessage == [type |-> "tool", tool_calls |-> <<>>]

\* should_continue(state)
ShouldContinueNever(msgs) == "__end__"
ShouldContinue(msgs) ==
    IF msgs[Len(msgs)].tool_calls # <<>> THEN "tools" ELSE "__end__"

\* app.invoke({"messages": [HumanMessage(prompt)]}): the edge from __start__
Invoke ==
    /\ node = "idle"
    /\ node' = "agent"
    /\ messages' = <<HumanMessage>>
    /\ pending' = <<>>
    /\ steps' = 0
    /\ returned' = NoMsg
    /\ last' = NoCall
    /\ UNCHANGED configVars

\* the agent node, call_model, followed by its conditional edge
CallModel ==
    /\ node = "agent"
    /\ steps < MaxSteps
    /\ \E failAt \in FailPoints, raises \in BOOLEAN, tool_calls \in ToolCallLists :
         IF failAt \in {1, 2, 3} \/ raises
         THEN /\ node' = "raised"
              /\ UNCHANGED <<messages, pending>>
         ELSE /\ messages' = Append(messages, AIMessage(tool_calls))
              /\ pending' = tool_calls
              /\ node' = ShouldContinue(messages')
    /\ steps' = steps + 1
    /\ last' = NoCall
    /\ UNCHANGED <<returned, configVars>>

\* invoke returns the state once the run has reached __end__
ReturnResult ==
    /\ node = "__end__"
    /\ node' = "idle"
    /\ returned' = messages[Len(messages)]
    /\ UNCHANGED <<messages, pending, steps, last, configVars>>

\* A function of tools_powerbi.py is called either by the tools node, for the
\* first pending call of the latest model response and with the arguments
\* the tool wrapper passes, or directly by other code while no run is in
\* progress.  Calls share nothing but the configuration, so one direct call
\* is explored from each configuration.
CalledByTools(tool) == node = "tools" /\ pending # <<>> /\ Head(pending) = tool

CalledDirectly == node = "idle" /\ last = NoCall

\* The tools node turns the tool's return value into a tool message; what it
\* does with an exception depends on its error handling, which either
\* reports it in a tool message or lets it end the run.  After the last
\* pending call the edge from tools leads to agent.
Deliver(call) ==
    IF node = "idle"
    THEN /\ last' = [call EXCEPT !.via = "direct"]
         /\ UNCHANGED <<graphVars, configVars>>
    ELSE /\ last' = call
         /\ \E handled \in (IF call.res.raised THEN BOOLEAN ELSE {TRUE}) :
              IF handled
              THEN /\ messages' = Append(messages, ToolMessage)
                   /\ pending' = Tail(pending)
                   /\ node' = IF Tail(pending) = <<>> THEN "agent" ELSE "tools"
              ELSE /\ node' = "raised"
                   /\ UNCHANGED <<messages, pending>>
         /\ UNCHANGED <<steps, returned, configVars>>

\* the arguments a direct caller may pass; the tool wrappers pass none
ArgsOf(values) == IF node = "idle" THEN values ELSE {NONE}

ListReports ==
    /\ CalledByTools("list_powerbi_reports") \/ CalledDirectly
    /\ \E workspace_id \in ArgsOf(WsArgs), stream \in OpTokenStreams, api \in ListResponses,
          failAt \in FailPoints :
         Deliver([op |-> "list_reports", done |-> TRUE, via |-> "agent",
                  workspace_id |-> workspace_id, stream |-> stream, api |-> api,
                  failAt |-> failAt,
                  res |-> ListReportsRun(workspace_id, stream, api, failAt)])

ListReportPages ==
    /\ CalledByTools("get_powerbi_report_pages") \/ CalledDirectly
    /\ \E report_id \in ReportIds, workspace_id \in ArgsOf(WsArgs), stream \in OpTokenStreams,
          api \in ListResponses, failAt \in FailPoints :
         Deliver([op |-> "list_report_pages", done |-> TRUE, via |-> "agent",
                  report_id |-> report_id, workspace_id |-> workspace_id, stream |-> stream,
                  api |-> api, failAt |-> failAt,
                  res |-> ListReportPagesRun(report_id, workspace_id, stream, api, failAt)])

GenerateDaxFromNl ==
    /\ CalledByTools("generate_dax_from_nl") \/ CalledDirectly
    /\ \E user_question \in Questions, llm \in DaxLlmOutcomes, failAt \in FailPoints :
         Deliver([op |-> "generate_dax_from_nl", done |-> TRUE, via |-> "agent",
                  user_question |-> user_question, llm |-> llm, failAt |-> failAt,
                  res |-> GenerateDaxRun(user_question, llm, failAt)])

ExecuteDaxQuery ==
    /\ CalledByTools("execute_dax_query") \/ CalledDirectly
    /\ \E dax \in DaxTexts, workspace_id \in ArgsOf(WsArgs), dataset_id \in ArgsOf(DsArgs),
          stream \in OpTokenStreams, api \in ExecResponses, failAt \in FailPoints :
         Deliver([op |-> "execute_dax_query", done |-> TRUE, via |-> "agent",
                  dax |-> dax, workspace_id |-> workspace_id, dataset_id |-> dataset_id,
                  stream |-> stream, api |-> api, failAt |-> failAt,
                  res |-> ExecuteDaxRun(dax, workspace_id, dataset_id, stream, api, failAt)])

ConfigInit(faulty) ==
    /\ WORKSPACE_ID \in {NONE, "ws0"}
    /\ DATASET_ID \in {NONE, "ds0"}
    /\ sinkFaulty = faulty
    /\ GraphIdle
    /\ last = NoCall

\* the program with a trace sink that never raises
Init == ConfigInit(FALSE)

\* the program with a trace sink whose calls may raise
InitSinkFail == ConfigInit(TRUE)

Next ==
    \/ Invoke
    \/ CallModel
    \/ ReturnResult
    \/ ListReports
    \/ ListReportPages
    \/ GenerateDaxFromNl
    \/ ExecuteDaxQuery

Spec == Init /\ [][Next]_vars

SpecSinkFail == InitSinkFail /\ [][Next]_vars

----------------------------------------------------------------------------
(* C1 *)

IsTokenCall == last.op = "_get_token" /\ last.done

\* number of leading responses of the stream on which an attempt raises
RECURSIVE LeadingFailures(_)
LeadingFailures(stream) ==
    IF stream = <<>> \/ AttemptReturns(Head(stream)) THEN 0
    ELSE 1 + LeadingFailures(Tail(stream))

\* C1: _get_token makes attempts until the first success or until 3 attempts
\* have been made, never a fourth: it makes min(failures before the first
\* success + 1, 3) requests to the token endpoint; with a success among the
\* first three responses it returns the token of that response (after two
\* failures, the token of the third response, with exactly 3 attempts); after
\* three consecutive failures it has made exactly 3 attempts and fails.
C1_TokenAttempts ==
    IsTokenCall =>
        LET f == LeadingFailures(last.stream) IN
        /\ Len(last.http) <= 3
        /\ Len(last.http) = Min(f + 1, 3)
        /\ last.result.attempts = Len(last.http)
        /\ \A i \in 1..Len(last.http) : last.http[i] = TokenPost
        /\ (f < 3 => last.result.ok /\ last.result.token = last.stream[f + 1].token)
        /\ (f = 2 => last.result.ok /\ Len(last.http) = 3 /\ last.result.token = Tok(3))
        /\ (f >= 3 => ~last.result.ok /\ Len(last.http) = 3)

\* two failures then a success, or three failures in a row where a fourth
\* response would have succeeded
C1_Witness ==
    /\ IsTokenCall
    /\ LeadingFailures(last.stream) \in {2, 3}
    /\ AttemptReturns(last.stream[TokenStreamLen])
    /\ Len(last.http) = 3

----------------------------------------------------------------------------
(* C7, C8, C9: the preview *)

IsPreviewCall == last.op = "_first_table_to_csv" /\ last.done

\* the statements of a result, read off the result itself
StatementsOf(r) == IF r.hasResults THEN r.results ELSE <<>>

HasErrorPayload(st) == st.hasErrors /\ Len(st.errors) > 0

HasTables(st) == st.hasTables /\ Len(st.tables) > 0

\* the result has a first statement without error payload and with a table
ReachesTable(r) ==
    /\ Len(StatementsOf(r)) > 0
    /\ ~HasErrorPayload(StatementsOf(r)[1])
    /\ HasTables(StatementsOf(r)[1])

TheTable(r) == StatementsOf(r)[1].tables[1]

RowsOf(t) == IF t.hasRows THEN t.rows ELSE <<>>

HasKeyedRows(t) == Len(RowsOf(t)) > 0 /\ RowsOf(t)[1].kind = "dict"

\* number of records of a CSV text: one more than the number of line feeds
\* outside quoted fields, and none in an empty text
RECURSIVE LineFeedsOutsideQuotes(_, _)
LineFeedsOutsideQuotes(text, quoted) ==
    IF text = <<>> THEN 0
    ELSE IF Head(text) = "\"" THEN LineFeedsOutsideQuotes(Tail(text), ~quoted)
    ELSE (IF Head(text) = "\n" /\ ~quoted THEN 1 ELSE 0)
         + LineFeedsOutsideQuotes(Tail(text), quoted)

CsvRecords(text) == IF text = <<>> THEN 0 ELSE 1 + LineFeedsOutsideQuotes(text, FALSE)

\* C7: for a first table with column descriptors or keyed rows and n rows,
\* the preview is a CSV text of exactly one header row followed by exactly
\* min(n, max_rows) data rows.
C7_HeaderAndAtMostMaxRows ==
    (IsPreviewCall /\ ReachesTable(last.result)
       /\ (TheTable(last.result).columns.isList \/ HasKeyedRows(TheTable(last.result))))
    => /\ last.out.kind = "csv"
       /\ CsvRecords(last.out.text)
            = 1 + Min(Len(RowsOf(TheTable(last.result))), last.max_rows)

C9_DescriptorsRenderEveryRowShape ==
    (IsPreviewCall /\ ReachesTable(last.result) /\ TheTable(last.result).columns.isList)
    => LET t == TheTable(last.result)
           names == ColNames(t.columns)
           shown == Min(Len(RowsOf(t)), last.max_rows)
       IN /\ last.out.kind = "csv"
          /\ Len(last.out.written) = 1 + shown
          /\ last.out.written[1] = names
          /\ \A i \in 1..shown :
               RowsOf(t)[i].kind = "dict" =>
                 last.out.written[i + 1]
                   = [j \in 1..Len(names) |-> ItemsGet(RowsOf(t)[i].items, names[j], <<>>)]

----------------------------------------------------------------------------
(* C2 - C6: the tool operations *)

IsCall(op) == last.op = op /\ last.done

IsRemoteCall ==
    last.done /\ last.op \in {"list_reports", "list_report_pages", "execute_dax_query"}

IsOperationCall == IsRemoteCall \/ IsCall("generate_dax_from_nl")

Absent(x) == x = NONE \/ x = ""

\* neither passed nor configured
NoWorkspace == Absent(last.workspace_id) /\ Absent(WORKSPACE_ID)
NoDataset == Absent(last.dataset_id) /\ Absent(DATASET_ID)

\* C2: when the workspace is neither passed nor configured, or, for
\* execute_dax_query, the workspace is there and the dataset is neither
\* passed nor configured, the operation fails with the configuration error
\* and has made no HTTP request at all, the token endpoint included.
C2_ConfigErrorBeforeNetwork ==
    IsRemoteCall =>
        /\ NoWorkspace =>
             /\ last.res.raised
             /\ last.res.exc = "ValueError: workspace_id"
             /\ last.res.http = <<>>
        /\ (IsCall("execute_dax_query") /\ ~NoWorkspace /\ NoDataset) =>
             /\ last.res.raised
             /\ last.res.exc = "ValueError: dataset_id"
             /\ last.res.http = <<>>

\* the dataset is missing although the token endpoint and the API would answer
C2_Witness ==
    /\ IsCall("execute_dax_query")
    /\ ~NoWorkspace
    /\ NoDataset
    /\ AttemptReturns(last.stream[1])
    /\ last.api.status = 200
    /\ last.res.raised
    /\ last.res.http = <<>>

\* the text begins with EVALUATE in some letter case
BeginsWithKeyword(text) ==
    /\ Len(text) >= 8
    /\ \A i \in 1..8 : UpperChar(text[i]) = EVALUATE[i]

\* C3: in every run of the agent, no query text that does not begin
\* (case-insensitively) with EVALUATE is ever POSTed to, and answered by,
\* the executeQueries endpoint, whoever produced the text.
C3_OnlyKeywordQueriesPosted ==
    (IsCall("execute_dax_query") /\ last.via = "agent") =>
        \A i \in 1..Len(last.res.http) :
            (last.res.http[i].endpoint = "executeQueries" /\ ~NoResponse(last.api.status))
                => BeginsWithKeyword(last.res.http[i].query)

SameOutcome(r1, r2) ==
    /\ r1.raised = r2.raised
    /\ r1.exc = r2.exc
    /\ (~r1.raised /\ ~r2.raised) => r1.value = r2.value

\* the outcome of the latest call had the sink worked throughout
WithWorkingSink ==
    CASE last.op = "list_reports" ->
           ListReportsRun(last.workspace_id, last.stream, last.api, 0)
      [] last.op = "list_report_pages" ->
           ListReportPagesRun(last.report_id, last.workspace_id, last.stream, last.api, 0)
      [] last.op = "generate_dax_from_nl" ->
           GenerateDaxRun(last.user_question, last.llm, 0)
      [] OTHER ->
           ExecuteDaxRun(last.dax, last.workspace_id, last.dataset_id, last.stream, last.api, 0)

\* C4: whatever the trace sink does, raising on entering the span or on any
\* update included, each operation returns the same result or raises the
\* same error as with a working sink.
C4_SinkFailuresAreIsolated ==
    IsOperationCall => SameOutcome(last.res, WithWorkingSink)

\* the text between the first and the last character that is not white space
TrimmedOf(text) ==
    LET solid == { i \in 1..Len(text) : ~IsSpace(text[i]) } IN
    IF solid = {} THEN <<>>
    ELSE SubSeq(text, CHOOSE i \in solid : \A j \in solid : i <= j,
                      CHOOSE i \in solid : \A j \in solid : i >= j)

ContentOf(llm) == IF llm.isNone THEN <<>> ELSE llm.text

\* C5: generate_dax_from_nl invokes the language model exactly once per call
\* and, for every response, fails with the validation error when the trimmed
\* response does not begin with EVALUATE in any letter case, and returns the
\* trimmed response unchanged otherwise.
C5_TranslateValidatesOnce ==
    IsCall("generate_dax_from_nl") =>
        /\ last.res.llm = 1
        /\ ~last.llm.raises =>
             IF BeginsWithKeyword(TrimmedOf(ContentOf(last.llm)))
             THEN ~last.res.raised /\ last.res.value = TrimmedOf(ContentOf(last.llm))
             ELSE last.res.raised /\ last.res.exc = "ValueError: not EVALUATE"

\* a lower-case, padded response is accepted and returned trimmed
C5_Witness ==
    /\ IsCall("generate_dax_from_nl")
    /\ ~last.res.raised
    /\ last.res.value # last.llm.text
    /\ last.res.value # Upper(last.res.value)
    /\ last.res.llm = 1

ExecPosts == { i \in 1..Len(last.res.http) : last.res.http[i].endpoint = "executeQueries" }

\* the POST of the query was sent and a response came back
ExecAnswered == ExecPosts # {} /\ last.api.status # 0

----------------------------------------------------------------------------
(* C10: the agent graph *)

LastOf(msgs) == msgs[Len(msgs)]

GraphStep ==
    /\ (node = "idle" /\ node' # "idle") => node' = "agent"
    /\ (node = "agent" /\ messages' # messages) =>
         /\ LastOf(messages').type = "ai"
         /\ node' = "tools" <=> LastOf(messages').tool_calls # <<>>
         /\ node' = "__end__" <=> LastOf(messages').tool_calls = <<>>
    /\ (node = "agent" /\ messages' = messages) => node' \in {"agent", "raised"}
    /\ (node = "tools" /\ node' # "tools") => node' \in {"agent", "raised"}
    /\ (node' = "__end__" /\ node # "__end__") => node = "agent"
    /\ (node = "__end__" /\ node' # "__end__") =>
         /\ node' = "idle"
         /\ returned' = LastOf(messages)
         /\ returned'.type = "ai"
         /\ returned'.tool_calls = <<>>

\* C10: a run starts at the agent node; after an agent step the tools node
\* is next exactly when the latest message carries tool calls, and otherwise
\* the run ends; after a tools step the agent node is next; so a run ends
\* only directly after an agent step and the message returned is a model
\* response without tool calls.
C10_GraphRouting == [][GraphStep]_vars

\* a run that went through the tools node has returned
C10_Witness ==
    /\ node = "idle"
    /\ returned.type = "ai"
    /\ \E i \in 1..Len(messages) : messages[i].type = "tool"

====
